---- MODULE Spec2Model ----
(***************************************************************************)
(* The driver of the Dusk compiler frontend (DuskAssembly.cpp): queueing   *)
(* files, parse_file, the pass loop of compile_write_binary, the three     *)
(* recursive traversals (semantic generation, semantic analysis, code      *)
(* generation) with their ScopeContext enter/leave calls, and the final    *)
(* write of the IL stream.  The AST is that of Ast.h.                      *)
(***************************************************************************)
EXTENDS Integers, Sequences, FiniteSets, TLC

\* ------------------------------------------------------------------ bounds
\* The number of files the command line queues.
MaxFiles == 2
\* The largest pass number a registered handler declares.
MaxDeclaredPass == 1
\* The number of tokens of a highlighted source.
MaxTokens == 3

\* ------------------------------------------------------- program constants
\* A pass loop that stops one pass early.
NumPassesNine == 10 - 1

\* for(int pass = 0; pass < 10; pass++)
NumPasses == 10

\* -------------------------------------------------------------------- AST
\* A node is [kind, kids, ret]: kids are the children the driver recurses
\* into, in the order it does (a null pointer is NullNode); ret says whether
\* an AstFn has a return_type.
NullNode == [kind |-> "nullptr", kids |-> <<>>, ret |-> FALSE]

Node(kind, kids) == [kind |-> kind, kids |-> kids, ret |-> FALSE]

AstBlock(statements) == Node("AstBlock", statements)

AstDec == Node("AstDec", <<>>)

AstReturn == Node("AstReturn", <<>>)

AstFnCall == Node("AstFnCall", <<>>)

AstIf(true_block, false_block) == Node("AstIf", <<true_block, false_block>>)

AstFn(return_type, body) == [kind |-> "AstFn", kids |-> <<body>>, ret |-> return_type]

AstLoop(body) == Node("AstLoop", <<body>>)

AstImpl(block) == Node("AstImpl", <<block>>)

AstAffix(body) == Node("AstAffix", <<body>>)

AstExtern(decls) == Node("AstExtern", decls)

\* bool emit = true: the flag of a newly constructed node.
EmitDefault == TRUE

\* The node of tree `root` at `path` (child indices from the root).
RECURSIVE NodeAt(_, _)
NodeAt(root, path) ==
    IF path = <<>> THEN root
    ELSE NodeAt(root.kids[Head(path)], Tail(path))

\* ------------------------------------------------------------ source files
\* A source file, by what the phases make of it: the number of errors the
\* lexer and the parser record, the tree the parser builds, the nodes whose
\* semantic-generation handler clears emit, and the nodes for which the
\* semantic-analysis handler records an error.
File(lexErrors, parseErrors, root, noEmit, bad) ==
    [lexErrors |-> lexErrors, parseErrors |-> parseErrors, root |-> root,
     noEmit |-> noEmit, bad |-> bad]

Clean(root) == File(0, 0, root, {}, {})

EmptyBlock == AstBlock(<<>>)

\* fn f() { var x }        fn g() -> T { return }      fn h()   (no body)
FnVoid == AstFn(FALSE, AstBlock(<<AstDec>>))

FnVoidRet == AstFn(FALSE, AstBlock(<<AstReturn>>))

FnTyped == AstFn(TRUE, AstBlock(<<AstReturn>>))

FnDecl == AstFn(FALSE, NullNode)

\* Functions, an if with both blocks, an extern, an impl and an affix.
Decls == AstBlock(<<AstDec, FnVoid, FnTyped, FnVoidRet, FnDecl>>)

Nested ==
    AstBlock(<<AstIf(AstBlock(<<AstFnCall>>), AstBlock(<<AstDec>>)),
               AstExtern(<<FnDecl, FnDecl>>),
               AstImpl(AstBlock(<<FnVoid>>)),
               AstAffix(AstBlock(<<AstReturn>>))>>)

\* Every construct the driver recurses into, without a loop or a null block.
Plain == AstBlock(Decls.kids \o Nested.kids)

\* fn f() { var x }  var y  g(): the handlers clear emit of f and record an
\* error for the call.
Marked == File(0, 0, AstBlock(<<FnVoid, AstDec, AstFnCall>>), {<<1>>}, {<<3>>})

FilePool ==
    { Clean(EmptyBlock),
      Clean(Plain),
      Clean(AstBlock(<<AstLoop(AstBlock(<<AstDec>>))>>)),
      Clean(AstBlock(<<AstFn(FALSE, AstBlock(<<AstLoop(AstBlock(<<AstLoop(EmptyBlock)>>))>>))>>)),
      Clean(AstBlock(<<AstIf(EmptyBlock, NullNode)>>)),
      Marked,
      File(1, 0, EmptyBlock, {}, {}),
      File(0, 1, AstBlock(<<AstDec>>), {}, {}) }

\* The command lines: the files queued, in order.
Inputs == UNION { [1..n -> FilePool] : n \in 0..MaxFiles }

\* --------------------------------------------------------------- handlers
\* The node kinds of the handlers the constructor registers, in the order of
\* its push_back calls (the same order in each of the three families).
HandlerKinds ==
    << "AstBlock", "AstString", "AstNumber", "AstBoolean", "AstArray", "AstDec",
       "AstIf", "AstFn", "AstFnCall", "AstLoop", "AstContinue", "AstBreak",
       "AstStruct", "AstImpl", "AstAttribute", "AstAffix", "AstUnaryExpr",
       "AstBinaryExpr", "AstIndex", "AstType", "AstSymbol", "AstReturn",
       "AstExtern", "AstUse", "AstNamespace" >>

\* The kinds whose handlers declare a pass later than 0.
LateKinds == {"AstFn", "AstFnCall", "AstImpl"}

\* The pass number a handler of `kind` has when it is constructed.
DeclaredPass(kind, late) == IF kind \in LateKinds THEN late ELSE 0

\* A registered handler: type_handler, the mutable pass field, and decl, the
\* value pass had when the handler was registered.
Handler(kind, late) ==
    [type_handler |-> kind, pass |-> DeclaredPass(kind, late), decl |-> DeclaredPass(kind, late)]

\* One family's push_back calls of one DuskAssembly construction.
Registered(late) == [i \in 1..Len(HandlerKinds) |-> Handler(HandlerKinds[i], late)]

\* The largest element of a non-empty set of numbers.
SetMax(S) == CHOOSE m \in S : \A x \in S : x <= m

\* find_total_passes: the largest pass field over the analysis and the
\* generator handlers, at least 0.
find_total_passes(analysis, generator) ==
    SetMax({0} \cup { analysis[i].pass : i \in 1..Len(analysis) }
               \cup { generator[i].pass : i \in 1..Len(generator) })

\* The index of the last handler whose type_handler is `kind`, 0 when there
\* is none: a loop over the handlers without the break.
LastHandler(hs, kind) ==
    IF \E i \in 1..Len(hs) : hs[i].type_handler = kind
    THEN CHOOSE i \in 1..Len(hs) :
            /\ hs[i].type_handler = kind
            /\ \A j \in (i + 1)..Len(hs) : hs[j].type_handler # kind
    ELSE 0

\* The index of the first handler whose type_handler is `kind`, 0 when the
\* loop over the handlers ends without a match.
FirstHandler(hs, kind) ==
    IF \E i \in 1..Len(hs) : hs[i].type_handler = kind
    THEN CHOOSE i \in 1..Len(hs) :
            /\ hs[i].type_handler = kind
            /\ \A j \in 1..(i - 1) : hs[j].type_handler # kind
    ELSE 0

\* ------------------------------------------------------- traversal state
\* What a traversal reads and writes: st ("ok", or how the process died),
\* stack (the scopes of scopes.front() above the global scope), ev (the
\* events of this traversal), gen and ana (the handler lists with their pass
\* fields), emitOff (the nodes of this file whose emit is false), errs (the
\* nodes of this file with a recorded analysis error), il (the IL stream),
\* null ("segv" when a null dereference kills the process, "skip" when the
\* garbage it reads matches no node kind).
Ev(op, node, h, hp, decl, emit) ==
    [op |-> op, node |-> node, h |-> h, hp |-> hp, decl |-> decl, emit |-> emit]

ScopeEv(op, node) == Ev(op, node, 0, 0, 0, TRUE)

Log(s, e) == [s EXCEPT !.ev = Append(@, e)]

\* ScopeContext::enter(node, label): push a scope owned by the node.
Enter(s, node, label) ==
    IF s.st # "ok" THEN s
    ELSE [s EXCEPT !.stack = Append(@, [owner |-> node, label |-> label]),
                   !.ev = Append(@, ScopeEv("enter", node))]

\* ScopeContext::leave(): pop; the assertion fails when only the global
\* scope is left.
Leave(s, node) ==
    IF s.st # "ok" THEN s
    ELSE IF s.stack = <<>>
         THEN [s EXCEPT !.st = "assert", !.ev = Append(@, ScopeEv("leave", node))]
         ELSE [s EXCEPT !.stack = SubSeq(@, 1, Len(@) - 1),
                        !.ev = Append(@, ScopeEv("leave", node))]

\* node->node_type with node == nullptr.
NullDeref(s, path) ==
    IF s.null = "segv"
    THEN [s EXCEPT !.st = "segv", !.ev = Append(@, ScopeEv("null", path))]
    ELSE Log(s, ScopeEv("null", path))

\* A driver that emits nothing after the body.
EmitNoReturn(s, node) == s

\* il_emitter._return()
EmitReturn(s, node) ==
    IF s.st # "ok" THEN s
    ELSE [s EXCEPT !.il = Append(@, "return"),
                   !.ev = Append(@, Ev("return", node, 0, 0, 0, node \notin s.emitOff))]

\* ISemanticGenerator::generate on a node: the handler of a node the file
\* lists in noEmit clears the node's emit flag.
Generate(s, f, path) ==
    IF path \in f.noEmit THEN [s EXCEPT !.emitOff = @ \cup {path}] ELSE s

\* ISemanticAnalysis::validate_semantics and validate_types on a node: the
\* handler records an error for a node the file lists in bad.
Validate(s, f, path) ==
    IF path \in f.bad THEN [s EXCEPT !.errs = @ \cup {path}] ELSE s

\* ICodeGenerator::generate on a node: the handler emits the node's opcode
\* unless the node's emit flag is false.
GenerateIL(s, node, path) ==
    IF path \in s.emitOff THEN s ELSE [s EXCEPT !.il = Append(@, node.kind)]

\* A driver that leaves the handler's pass field alone.
SetPassKeep(hs, h, pass) == hs

\* handler->pass = pass, on the h-th handler of a list
SetPass(hs, h, pass) == [hs EXCEPT ![h].pass = pass]

\* for(auto handler : ISemanticGenerator::handlers) of semantic_generation_node;
\* the event holds the handler's pass field as generate finds it.
CallGenerator(s, node, path, pass, f) ==
    LET h == FirstHandler(s.gen, node.kind)
        hs == SetPass(s.gen, h, pass)
    IN
    IF h = 0 THEN s
    ELSE Generate(
           [s EXCEPT !.gen = hs,
                     !.ev = Append(@, Ev("generate", path, h, hs[h].pass, hs[h].decl,
                                         path \notin s.emitOff))],
           f, path)

\* for(auto handler : ISemanticAnalysis::handlers) of semantic_analyse_node
CallAnalysis(s, node, path, pass, f) ==
    LET h == FirstHandler(s.ana, node.kind)
        hs == SetPass(s.ana, h, pass)
    IN
    IF h = 0 THEN s
    ELSE Validate(
           [s EXCEPT !.ana = hs,
                     !.ev = Append(@, Ev("validate", path, h, hs[h].pass, hs[h].decl,
                                         path \notin s.emitOff))],
           f, path)

\* for(auto handler : ICodeGenerator::handlers) of generate_code_node
CallCodeGenerator(s, node, path) ==
    LET h == FirstHandler(s.cg, node.kind) IN
    IF h = 0 THEN s
    ELSE GenerateIL(
           Log(s, Ev("codegen", path, h, 0, 0, path \notin s.emitOff)),
           node, path)

\* ------------------------------------------------------------ traversals
\* Each traversal logs a "visit" event as it is entered with a node, then
\* follows its function's text.  The pass of generate_code_node is unused.
Visit(s, path) == Log(s, ScopeEv("visit", path))

\* bool DuskAssembly::semantic_generation_node(AstNode *node, int pass)
RECURSIVE semantic_generation_node(_, _, _, _, _), semantic_generation_each(_, _, _, _, _, _)
semantic_generation_node(s, node, path, pass, f) ==
    IF s.st # "ok" THEN s
    ELSE IF node = NullNode THEN NullDeref(s, path)
    ELSE
      LET s1 == CallGenerator(Visit(s, path), node, path, pass, f)
          kid(i) == node.kids[i]
          at(i) == Append(path, i)
      IN
      CASE node.kind = "AstBlock" -> semantic_generation_each(s1, node.kids, 1, path, pass, f)
        [] node.kind = "AstIf" ->
             Leave(semantic_generation_node(
                     semantic_generation_node(Enter(s1, path, "if"), kid(1), at(1), pass, f),
                     kid(2), at(2), pass, f), path)
        [] node.kind = "AstFn" ->
             Leave(IF kid(1) # NullNode
                   THEN semantic_generation_node(Enter(s1, path, "name"), kid(1), at(1), pass, f)
                   ELSE Enter(s1, path, "name"), path)
        [] node.kind = "AstLoop" ->
             Leave(Leave(semantic_generation_node(Enter(s1, path, "loop"), kid(1), at(1), pass, f),
                         path), path)
        [] node.kind = "AstImpl" ->
             Leave(semantic_generation_node(Enter(s1, path, "name"), kid(1), at(1), pass, f), path)
        [] node.kind = "AstAffix" ->
             Leave(semantic_generation_node(Enter(s1, path, "name"), kid(1), at(1), pass, f), path)
        [] node.kind = "AstExtern" ->
             Leave(semantic_generation_each(Enter(s1, path, "extern"), node.kids, 1, path, pass, f), path)
        [] OTHER -> s1

\* A loop over the statements that stops after the first one.
semantic_generation_first(s, kids, i, path, pass, f) ==
    IF i > Len(kids) \/ i > 1 THEN s
    ELSE semantic_generation_node(s, kids[i], Append(path, i), pass, f)

\* for(auto stmt : ...) semantic_generation_node(stmt, pass), from the i-th element on
semantic_generation_each(s, kids, i, path, pass, f) ==
    IF i > Len(kids) THEN s
    ELSE semantic_generation_each(semantic_generation_node(s, kids[i], Append(path, i), pass, f),
                kids, i + 1, path, pass, f)

\* bool DuskAssembly::semantic_analyse_node(AstNode *node, int pass)
RECURSIVE semantic_analyse_node(_, _, _, _, _), semantic_analyse_each(_, _, _, _, _, _)
semantic_analyse_node(s, node, path, pass, f) ==
    IF s.st # "ok" THEN s
    ELSE IF node = NullNode THEN NullDeref(s, path)
    ELSE
      LET s1 == CallAnalysis(Visit(s, path), node, path, pass, f)
          kid(i) == node.kids[i]
          at(i) == Append(path, i)
      IN
      CASE node.kind = "AstBlock" -> semantic_analyse_each(s1, node.kids, 1, path, pass, f)
        [] node.kind = "AstIf" ->
             Leave(semantic_analyse_node(
                     semantic_analyse_node(Enter(s1, path, "if"), kid(1), at(1), pass, f),
                     kid(2), at(2), pass, f), path)
        [] node.kind = "AstFn" ->
             Leave(IF kid(1) # NullNode
                   THEN semantic_analyse_node(Enter(s1, path, "name"), kid(1), at(1), pass, f)
                   ELSE Enter(s1, path, "name"), path)
        [] node.kind = "AstLoop" ->
             Leave(semantic_analyse_node(Enter(s1, path, "loop"), kid(1), at(1), pass, f), path)
        [] node.kind = "AstImpl" ->
             Leave(semantic_analyse_node(Enter(s1, path, "name"), kid(1), at(1), pass, f), path)
        [] node.kind = "AstAffix" ->
             Leave(semantic_analyse_node(Enter(s1, path, "name"), kid(1), at(1), pass, f), path)
        [] node.kind = "AstExtern" ->
             Leave(semantic_analyse_each(Enter(s1, path, "extern"), node.kids, 1, path, pass, f), path)
        [] OTHER -> s1

\* for(auto stmt : ...) semantic_analyse_node(stmt, pass), from the i-th element on
semantic_analyse_each(s, kids, i, path, pass, f) ==
    IF i > Len(kids) THEN s
    ELSE semantic_analyse_each(semantic_analyse_node(s, kids[i], Append(path, i), pass, f),
                kids, i + 1, path, pass, f)

\* bool DuskAssembly::generate_code_node(AstNode *node)
RECURSIVE generate_code_node(_, _, _, _, _), generate_code_each(_, _, _, _, _, _)
generate_code_node(s, node, path, pass, f) ==
    IF s.st # "ok" THEN s
    ELSE IF node = NullNode THEN NullDeref(s, path)
    ELSE
      LET s1 == CallCodeGenerator(Visit(s, path), node, path)
          kid(i) == node.kids[i]
          at(i) == Append(path, i)
      IN
      CASE node.kind = "AstBlock" -> generate_code_each(s1, node.kids, 1, path, pass, f)
        [] node.kind = "AstIf" ->
             Leave(generate_code_node(
                     generate_code_node(Enter(s1, path, "if"), kid(1), at(1), pass, f),
                     kid(2), at(2), pass, f), path)
        [] node.kind = "AstFn" ->
             Leave(IF kid(1) # NullNode
                   THEN EmitReturn(generate_code_node(Enter(s1, path, "name"), kid(1), at(1), pass, f),
                                   path)
                   ELSE Enter(s1, path, "name"), path)
        [] node.kind = "AstLoop" ->
             Leave(generate_code_node(Enter(s1, path, "loop"), kid(1), at(1), pass, f), path)
        [] node.kind = "AstImpl" ->
             Leave(generate_code_node(Enter(s1, path, "name"), kid(1), at(1), pass, f), path)
        [] node.kind = "AstAffix" ->
             Leave(generate_code_node(Enter(s1, path, "name"), kid(1), at(1), pass, f), path)
        [] node.kind = "AstExtern" ->
             Leave(generate_code_each(Enter(s1, path, "extern"), node.kids, 1, path, pass, f), path)
        [] OTHER -> s1

\* for(auto stmt : ...) generate_code_node(stmt), from the i-th element on
generate_code_each(s, kids, i, path, pass, f) ==
    IF i > Len(kids) THEN s
    ELSE generate_code_each(generate_code_node(s, kids[i], Append(path, i), pass, f),
                kids, i + 1, path, pass, f)

\* ------------------------------------------------------------------ state
VARIABLES
    input,          \* the command line: the files main queues, in order
    declared,       \* the pass number the late handlers declare
    gen, ana, cg,   \* ISemanticGenerator::, ISemanticAnalysis::, ICodeGenerator::handlers
    queued_files,   \* DuskAssembly::queued_files
    asts,           \* the local vector asts of compile_write_binary
    scopes,         \* DuskAssembly::scopes, each element the scope stack of a ScopeContext
    il,             \* il_emitter.stream
    pc, pass, idx,  \* where compile_write_binary stands: step, pass and file cursor
    st,             \* "ok", or how the process died: "segv", "assert", "nofile"
    rendered,       \* the diagnostics handle_errors printed in this run
    order,          \* the phases this run executed, in order
    tr,             \* per family and file, the latest traversal: its pass and events
    written,        \* the output files written, one per finished run
    run,            \* which compile_write_binary run this is; how the second began
    tokens,         \* syntax_highlight_print: tokens.tokens
    source,         \* syntax_highlight_print: source.size()
    cursor,         \* syntax_highlight_print: the loop variable i
    reads,          \* the unsigned indices at which set_colour read a neighbour of a token
    colour,         \* the colour printed last
    printer         \* where syntax_highlight_print stands: "idle", "print", "done", "dead"

\* The state of the driver, and that of the syntax highlighter.
driver ==
    << input, declared, gen, ana, cg, queued_files, asts, scopes, il, pc, pass, idx,
       st, rendered, order, tr, written, run >>

highlight == << tokens, source, cursor, reads, colour, printer >>

vars == << driver, highlight >>

\* An entry of order: the phase, the file's index in the queue, the pass.
Phase(ph, file, p) == [ph |-> ph, file |-> file, pass |-> p]

\* A traversal as tr keeps it: its pass, its events, how it ended ("ok", or
\* how the process died in it), and the depth of the scope stack as it
\* started and as it ended.
Trace(p, s, d0) ==
    [pass |-> p, ev |-> s.ev, st |-> s.st, d0 |-> d0, d1 |-> Len(s.stack)]

NoTrace == [pass |-> -1, ev |-> <<>>, st |-> "none", d0 |-> 0, d1 |-> 0]

NoTraces(n) == [fam \in {"gen", "ana", "cg"} |-> [i \in 1..n |-> NoTrace]]

\* The state after main constructed its DuskAssembly: the handlers are
\* registered, nothing is queued.
Init ==
    /\ input \in Inputs
    /\ declared \in 0..MaxDeclaredPass
    /\ gen = Registered(declared)
    /\ ana = Registered(declared)
    /\ cg = Registered(0)
    /\ queued_files = <<>>
    /\ asts = <<>>
    /\ scopes = <<>>
    /\ il = <<>>
    /\ pc = "main"
    /\ pass = 0
    /\ idx = 0
    /\ st = "ok"
    /\ rendered = 0
    /\ order = <<>>
    /\ tr = NoTraces(0)
    /\ written = <<>>
    /\ run = [n |-> 1, how |-> "first"]
    /\ tokens = <<>>
    /\ source = 0
    /\ cursor = 0
    /\ reads = {}
    /\ colour = "none"
    /\ printer = "idle"

\* ------------------------------------------------------------ control flow
\* A position of compile_write_binary: the step, the pass, the file cursor.
At(step, p, i) == [pc |-> step, pass |-> p, idx |-> i]

\* for(auto file : queued_files) asts.push_back(parse_file(file)), after file i of n
AfterParse(i, n) == IF i < n THEN At("parse", 0, i + 1) ELSE At("scope", 0, 0)

\* After scopes.push_back: the first iteration of the pass loop; with no
\* file, every pass and the code generation loop have nothing to do.
AfterPushScope(n) == IF n > 0 /\ NumPasses > 0 THEN At("gen", 0, 1) ELSE At("write", 0, 0)

\* semantic_generation(ast, pass); semantic_analysis(ast, pass);
AfterGeneration(p, i, n) == At("ana", p, i)

\* The two loops nested the other way round: every pass of a file before the
\* next file.
AfterAnalysisFileMajor(p, i, n) ==
    IF p + 1 < NumPasses THEN At("gen", p + 1, i)
    ELSE IF i < n THEN At("gen", 0, i + 1)
    ELSE At("codegen", 0, 1)

\* for(int pass = 0; pass < 10; pass++) for(auto ast : asts), after the
\* analysis of file i of n in pass p; then the code generation loop.
AfterAnalysis(p, i, n) ==
    IF i < n THEN At("gen", p, i + 1)
    ELSE IF p + 1 < NumPasses THEN At("gen", p + 1, 1)
    ELSE At("codegen", 0, 1)

\* A code generation loop that stops after its first file.
AfterCodegenFirst(i, n) == At("write", 0, 0)

\* for(auto ast : asts) generate_code(ast), after file i of n
AfterCodegen(i, n) == IF i < n THEN At("codegen", 0, i + 1) ELSE At("write", 0, 0)

Goto(pos) == pc' = pos.pc /\ pass' = pos.pass /\ idx' = pos.idx

Die(how) == pc' = "dead" /\ st' = how /\ UNCHANGED << pass, idx >>

\* --------------------------------------------------------------- actions
\* DuskAssembly::queue_file, called by main for the next file of the command line.
QueueFile ==
    /\ pc = "main"
    /\ Len(queued_files) < Len(input)
    /\ queued_files' = Append(queued_files, input[Len(queued_files) + 1])
    /\ UNCHANGED highlight
    /\ UNCHANGED << input, declared, gen, ana, cg, asts, scopes, il, pc, pass, idx,
                    st, rendered, order, tr, written, run >>

\* The entry of compile_write_binary: std::vector<Ast> asts.
Enter_compile_write_binary ==
    /\ asts' = <<>>
    /\ rendered' = 0
    /\ order' = <<>>
    /\ tr' = NoTraces(Len(queued_files))
    /\ Goto(IF Len(queued_files) > 0 THEN At("parse", 0, 1) ELSE At("scope", 0, 0))
    /\ UNCHANGED highlight
    /\ UNCHANGED << input, declared, gen, ana, cg, queued_files, scopes, il, st, written >>

\* main calls compile_write_binary once every file is queued.
Compile ==
    /\ pc = "main"
    /\ Len(queued_files) = Len(input)
    /\ Enter_compile_write_binary
    /\ UNCHANGED run

\* A handle_errors that returns true whatever the errors.
ignore_errors(errors) == TRUE

\* DuskAssembly::handle_errors: prints every error, returns errors.empty().
handle_errors(errors) == errors = 0

\* The phases parse_file runs on a file: the lexer, the parser once, and the
\* parser again when the first run recorded no error.
ParsePhases(f, i) ==
    <<Phase("lex", i, 0)>>
    \o (IF handle_errors(f.lexErrors) THEN <<Phase("parse", i, 0)>> ELSE <<>>)
    \o (IF handle_errors(f.lexErrors) /\ handle_errors(f.parseErrors)
        THEN <<Phase("parse", i, 0)>> ELSE <<>>)

\* The Ast parse_file returns, as the element push_back copies into asts:
\* root is the second parse's tree or null, parse the run of the parser that
\* built the tree root points to (0: none).  deletes counts the deletions of
\* that tree so far: one by the destructor of the inner tmp, one by the
\* destructor of the temporary push_back copied from.
ParsedAst(f) ==
    LET ok == handle_errors(f.lexErrors) /\ handle_errors(f.parseErrors) IN
    [root |-> IF ok THEN f.root ELSE NullNode,
     parse |-> IF ok THEN 2 ELSE 0,
     deletes |-> IF ok THEN 2 ELSE 0,
     emitOff |-> {},
     errs |-> {}]

\* The diagnostics parse_file prints for a file.
Rendered(f) == f.lexErrors + (IF handle_errors(f.lexErrors) THEN f.parseErrors ELSE 0)

\* asts.push_back(parse_file(file)) for the file at the cursor.  When the
\* parser ran, the first tree is deleted twice (delete tmp.root, then the
\* destructor of tmp): the process dies there or goes on.
ParseFile ==
    /\ pc = "parse"
    /\ LET f == queued_files[idx] IN
       \E ub \in (IF handle_errors(f.lexErrors) THEN {"die", "run"} ELSE {"run"}) :
         /\ order' = order \o ParsePhases(f, idx)
         /\ rendered' = rendered + Rendered(f)
         /\ IF ub = "die"
            THEN Die("segv") /\ UNCHANGED asts
            ELSE /\ asts' = Append(asts, ParsedAst(f))
                 /\ Goto(AfterParse(idx, Len(queued_files)))
                 /\ st' = st
    /\ UNCHANGED highlight
    /\ UNCHANGED << input, declared, gen, ana, cg, queued_files, scopes, il, tr,
                    written, run >>

\* scopes.push_back(new ScopeContext())
PushScope ==
    /\ pc = "scope"
    /\ scopes' = Append(scopes, <<>>)
    /\ Goto(AfterPushScope(Len(asts)))
    /\ UNCHANGED highlight
    /\ UNCHANGED << input, declared, gen, ana, cg, queued_files, asts, il, st,
                    rendered, order, tr, written, run >>

\* The state a traversal of asts[i] starts from.
StartWith(a, stack, null) ==
    [st |-> "ok", stack |-> stack, ev |-> <<>>, gen |-> gen, ana |-> ana, cg |-> cg,
     emitOff |-> a.emitOff, errs |-> a.errs, il |-> il, null |-> null]

Start(a, null) == StartWith(a, scopes[1], null)

\* What a traversal's undefined behaviour can come to.  The tree of a parsed
\* file was deleted before the first pass, so reading it may kill the process
\* ("die"); a null node is read as well, which kills it ("segv") or yields
\* garbage that matches no kind ("skip").
UBOutcomes(a) == IF a.root = NullNode THEN {"segv", "skip"} ELSE {"die", "segv", "skip"}

\* The state after a traversal of the file at the cursor that ended in s; the
\* loop variable ast, a copy of asts[idx], is destroyed when its iteration
\* ends, which deletes the tree once more.
Commit(fam, s, next, endsIteration) ==
    /\ gen' = s.gen
    /\ ana' = s.ana
    /\ il' = s.il
    /\ scopes' = [scopes EXCEPT ![1] = s.stack]
    /\ asts' = [asts EXCEPT ![idx].emitOff = s.emitOff,
                            ![idx].errs = s.errs,
                            ![idx].deletes =
                                IF endsIteration /\ asts[idx].root # NullNode /\ s.st = "ok"
                                THEN @ + 1 ELSE @]
    /\ tr' = [tr EXCEPT ![fam][idx] = Trace(pass, s, Len(scopes[1]))]
    /\ IF s.st = "ok" THEN Goto(next) /\ st' = st ELSE Die(s.st)

\* semantic_generation(ast, pass) in the pass loop
SemanticGeneration ==
    /\ pc = "gen"
    /\ order' = Append(order, Phase("gen", idx, pass))
    /\ \E ub \in UBOutcomes(asts[idx]) :
         IF ub = "die"
         THEN Die("segv") /\ UNCHANGED << gen, ana, il, scopes, asts, tr >>
         ELSE Commit("gen",
                     semantic_generation_node(Start(asts[idx], ub), asts[idx].root, <<>>,
                                              pass, queued_files[idx]),
                     AfterGeneration(pass, idx, Len(asts)), FALSE)
    /\ UNCHANGED highlight
    /\ UNCHANGED << input, declared, cg, queued_files, rendered, written, run >>

\* semantic_analysis(ast, pass) in the pass loop
SemanticAnalysis ==
    /\ pc = "ana"
    /\ order' = Append(order, Phase("ana", idx, pass))
    /\ \E ub \in UBOutcomes(asts[idx]) :
         IF ub = "die"
         THEN Die("segv") /\ UNCHANGED << gen, ana, il, scopes, asts, tr >>
         ELSE Commit("ana",
                     semantic_analyse_node(Start(asts[idx], ub), asts[idx].root, <<>>,
                                           pass, queued_files[idx]),
                     AfterAnalysis(pass, idx, Len(asts)), TRUE)
    /\ UNCHANGED highlight
    /\ UNCHANGED << input, declared, cg, queued_files, rendered, written, run >>

\* generate_code(ast) in the loop after the passes
GenerateCode ==
    /\ pc = "codegen"
    /\ order' = Append(order, Phase("codegen", idx, 0))
    /\ \E ub \in UBOutcomes(asts[idx]) :
         IF ub = "die"
         THEN Die("segv") /\ UNCHANGED << gen, ana, il, scopes, asts, tr >>
         ELSE Commit("cg",
                     generate_code_node(Start(asts[idx], ub), asts[idx].root, <<>>,
                                        0, queued_files[idx]),
                     AfterCodegen(idx, Len(asts)), TRUE)
    /\ UNCHANGED highlight
    /\ UNCHANGED << input, declared, cg, queued_files, rendered, written, run >>

\* The analysis errors recorded for the files of this run.
AnalysisErrors == UNION { {i} \X asts[i].errs : i \in 1..Len(asts) }

\* A return that leaves the ScopeContext in scopes.
KeepScope(ss) == ss

\* scopes.pop_back()
PopScope(ss) == SubSeq(ss, 1, Len(ss) - 1)

\* scopes.pop_back(); fopen, fwrite of il_emitter.stream, fclose; the
\* return destroys asts.  The FILE* fopen returns is not tested: when the
\* output file cannot be opened, fwrite is handed a null stream and the
\* process dies.
WriteBinary ==
    /\ pc = "write"
    /\ scopes' = PopScope(scopes)
    /\ \E opened \in BOOLEAN :
         IF opened
         THEN /\ asts' = <<>>
              /\ order' = Append(order, Phase("write", 0, 0))
              /\ written' = Append(written,
                                   [stream |-> il, files |-> queued_files,
                                    diagnostics |-> rendered + Cardinality(AnalysisErrors)])
              /\ Goto(At("done", 0, 0))
              /\ st' = st
         ELSE Die("nofile") /\ UNCHANGED << asts, order, written >>
    /\ UNCHANGED highlight
    /\ UNCHANGED << input, declared, gen, ana, cg, queued_files, il, rendered,
                    tr, run >>

\* A second compile_write_binary on the DuskAssembly that ran the first.
Recompile ==
    /\ pc = "done"
    /\ run.n = 1
    /\ run' = [n |-> 2, how |-> "same"]
    /\ Enter_compile_write_binary

\* DuskAssembly::DuskAssembly, for a second instance in the same process:
\* the static handler lists get another 25 handlers each; the new instance
\* has its own queue, scopes and il_emitter.
Construct ==
    /\ pc = "done"
    /\ run.n = 1
    /\ run' = [n |-> 2, how |-> "fresh"]
    /\ ana' = ana \o Registered(declared)
    /\ gen' = gen \o Registered(declared)
    /\ cg' = cg \o Registered(0)
    /\ queued_files' = <<>>
    /\ scopes' = <<>>
    /\ il' = <<>>
    /\ rendered' = 0
    /\ order' = <<>>
    /\ tr' = NoTraces(0)
    /\ Goto(At("main", 0, 0))
    /\ UNCHANGED highlight
    /\ UNCHANGED << input, declared, asts, st, written >>

Next ==
    \/ QueueFile
    \/ Compile
    \/ ParseFile
    \/ PushScope
    \/ SemanticGeneration
    \/ SemanticAnalysis
    \/ GenerateCode
    \/ WriteBinary
    \/ Recompile
    \/ Construct

Spec == Init /\ [][Next]_vars

\* ------------------------------------- syntax highlighting (AstPrettyPrinter)
\* The token types set_colour tells apart: Symbol, the two neighbours it
\* looks for, a keyword, a literal.
TokenTypes == {"Symbol", "OpenParenthesis", "Colon", "Fn", "IntegerLiteral"}

\* token.raw.size() of a token of a type, in this catalogue.
RawSize(type) == IF type \in {"Symbol", "Fn"} THEN 2 ELSE 1

\* The tokens of a source made of tokens of the given types back to back,
\* the first at `offset`.
RECURSIVE Lexed(_, _)
Lexed(types, offset) ==
    IF types = <<>> THEN <<>>
    ELSE <<[type |-> Head(types), offset |-> offset, size |-> RawSize(Head(types))]>>
         \o Lexed(Tail(types), offset + RawSize(Head(types)))

\* The token lists syntax_highlight_print is called with.
TokenLists == { Lexed(ts, 0) : ts \in UNION { [1..n -> TokenTypes] : n \in 0..MaxTokens } }

\* source.size() of the source a token list was lexed from.
SourceSize(toks) ==
    IF toks = <<>> THEN 0 ELSE toks[Len(toks)].offset + toks[Len(toks)].size

\* An int as the unsigned int it converts to, in two 16-bit halves (for
\* -2^31 <= n < 2^31): UInt(-1) is 0xFFFFFFFF.
UInt(n) == [hi |-> (n \div (2 ^ 16)) % (2 ^ 16), lo |-> n % (2 ^ 16)]

\* An unsigned index is that of an element of the vector.
InVector(toks, k) == k.hi = 0 /\ k.lo < Len(toks)

\* What a read outside the vector's elements yields: some token type, or a
\* fault that kills the process.
Garbage == {"OpenParenthesis", "Colon", "IntegerLiteral", "segv"}

\* tokens.tokens[k].type for an unsigned k (operator[] does not check k)
ReadType(toks, k, garbage) == IF InVector(toks, k) THEN toks[k.lo + 1].type ELSE garbage

\* token.offset <= i && token.offset + token.raw.size() > i
Covers(token, i) == token.offset <= i /\ token.offset + token.size > i

\* case TokenType::Symbol of set_colour, for the token at index j: acc is
\* [reads, colour, st], g the garbage the reads outside the vector yield.
SymbolColour(toks, j, acc, g) ==
    LET next == UInt(j + 1)
        prev == UInt(j - 1)
        nextType == ReadType(toks, next, g[1])
        prevType == ReadType(toks, prev, g[2])
    IN
    IF nextType = "segv"
    THEN [acc EXCEPT !.reads = @ \cup {next}, !.st = "segv"]
    ELSE IF nextType = "OpenParenthesis"
    THEN [acc EXCEPT !.reads = @ \cup {next}, !.colour = "Blue"]
    ELSE IF prevType = "segv"
    THEN [acc EXCEPT !.reads = @ \cup {next, prev}, !.st = "segv"]
    ELSE [acc EXCEPT !.reads = @ \cup {next, prev},
                     !.colour = IF prevType = "Colon" THEN "Red" ELSE "reset"]

\* switch(token.type) of set_colour, for the token at index j
TokenColour(toks, j, acc, g) ==
    CASE toks[j + 1].type = "Fn" -> [acc EXCEPT !.colour = "Magenta"]
      [] toks[j + 1].type = "IntegerLiteral" -> [acc EXCEPT !.colour = "Green"]
      [] toks[j + 1].type = "Symbol" -> SymbolColour(toks, j, acc, g)
      [] OTHER -> [acc EXCEPT !.colour = "reset"]

\* static void set_colour(unsigned int i, const TokenStream &tokens), from
\* the token at index j on
RECURSIVE set_colour(_, _, _, _, _)
set_colour(i, toks, j, acc, g) ==
    IF j >= Len(toks) \/ acc.st # "ok" THEN acc
    ELSE set_colour(i, toks, j + 1,
                    IF Covers(toks[j + 1], i) THEN TokenColour(toks, j, acc, g) ELSE acc,
                    g)

\* main calls syntax_highlight_print(source, tokens).
HighlightInit ==
    /\ input = <<>>
    /\ declared = 0
    /\ gen = Registered(0)
    /\ ana = Registered(0)
    /\ cg = Registered(0)
    /\ queued_files = <<>>
    /\ asts = <<>>
    /\ scopes = <<>>
    /\ il = <<>>
    /\ pc = "main"
    /\ pass = 0
    /\ idx = 0
    /\ st = "ok"
    /\ rendered = 0
    /\ order = <<>>
    /\ tr = NoTraces(0)
    /\ written = <<>>
    /\ run = [n |-> 1, how |-> "first"]
    /\ tokens \in TokenLists
    /\ source = SourceSize(tokens)
    /\ cursor = 0
    /\ reads = {}
    /\ colour = "none"
    /\ printer = "print"

\* The body of the loop of syntax_highlight_print: set_colour(i, tokens);
\* putchar(source[i]).
PrintChar ==
    /\ printer = "print"
    /\ cursor < source
    /\ \E g \in Garbage \X Garbage :
         LET r == set_colour(cursor, tokens, 0, [reads |-> reads, colour |-> colour, st |-> "ok"], g)
         IN
         /\ reads' = r.reads
         /\ colour' = r.colour
         /\ IF r.st = "ok"
            THEN cursor' = cursor + 1 /\ printer' = printer
            ELSE cursor' = cursor /\ printer' = "dead"
    /\ UNCHANGED << tokens, source >>
    /\ UNCHANGED driver

\* i < source.size() fails: syntax_highlight_print returns.
PrintReturn ==
    /\ printer = "print"
    /\ cursor >= source
    /\ printer' = "done"
    /\ UNCHANGED << tokens, source, cursor, reads, colour >>
    /\ UNCHANGED driver

HighlightNext ==
    \/ PrintChar
    \/ PrintReturn

HighlightSpec == HighlightInit /\ [][HighlightNext]_vars

\* ------------------------------------------------------------ properties
Families == {"gen", "ana", "cg"}

\* The recorded traversals: family, file index.
Recorded == { x \in Families \X DOMAIN tr["gen"] : tr[x[1]][x[2]].st # "none" }

\* The root parse_file gave the i-th queued file's Ast.
RootOf(i) == ParsedAst(queued_files[i]).root

TraceOf(x) == tr[x[1]][x[2]]

CountOp(ev, op) == Cardinality({ k \in 1..Len(ev) : ev[k].op = op })

CountAt(ev, op, path) == Cardinality({ k \in 1..Len(ev) : ev[k].op = op /\ ev[k].node = path })

IsScopeEv(e) == e.op \in {"enter", "leave"}

ScopeEvents(ev) == SelectSeq(ev, IsScopeEv)

IsHandlerEv(e) == e.op \in {"generate", "validate", "codegen"}

\* q is a node strictly below p.
Below(p, q) == Len(p) < Len(q) /\ SubSeq(q, 1, Len(p)) = p

\* The traversal of the i-th file's tree by a family, from an empty scope
\* stack, with the null dereferences coming out as they did in the recorded
\* traversal t.
Rerun(fam, i, t) ==
    LET s0 == StartWith(ParsedAst(queued_files[i]), <<>>,
                        IF t.st = "segv" THEN "segv" ELSE "skip")
    IN
    CASE fam = "gen" -> semantic_generation_node(s0, RootOf(i), <<>>, t.pass, queued_files[i])
      [] fam = "ana" -> semantic_analyse_node(s0, RootOf(i), <<>>, t.pass, queued_files[i])
      [] fam = "cg" -> generate_code_node(s0, RootOf(i), <<>>, 0, queued_files[i])

\* C1: every traversal (semantic_generation, semantic_analysis, generate_code
\* of one AST in one pass) makes as many leave() calls as enter() calls, and
\* when it returns the scope stack is as deep as when it started, with only
\* the global scope left.  (A traversal the process died in has made no more
\* leave() calls than enter() calls.)
C1_ScopeBalance ==
    \A x \in Recorded :
        /\ CountOp(TraceOf(x).ev, "leave") <= CountOp(TraceOf(x).ev, "enter")
        /\ TraceOf(x).st = "ok" =>
              /\ CountOp(TraceOf(x).ev, "leave") = CountOp(TraceOf(x).ev, "enter")
              /\ TraceOf(x).d1 = TraceOf(x).d0
              /\ TraceOf(x).d1 = 0

\* The stage of a phase: lexing, parsing, the passes, code generation, the write.
Rank(e) ==
    CASE e.ph = "lex" -> 1
      [] e.ph = "parse" -> 2
      [] e.ph \in {"gen", "ana"} -> 3
      [] e.ph = "codegen" -> 4
      [] e.ph = "write" -> 5

\* The k-th phase of this run recorded an error.
RecordedError(k) ==
    LET e == order[k] IN
    CASE e.ph = "lex" -> queued_files[e.file].lexErrors > 0
      [] e.ph = "parse" -> queued_files[e.file].parseErrors > 0
      [] e.ph = "ana" -> e.file <= Len(asts) /\ asts[e.file].errs # {}
      [] OTHER -> FALSE

\* Phase b comes later in the pipeline than phase a: a later stage, or a
\* later pass.
LaterPhase(a, b) == Rank(b) > Rank(a) \/ (Rank(a) = 3 /\ Rank(b) = 3 /\ b.pass > a.pass)

\* C2: once lexing, parsing or semantic analysis of a queued file has
\* recorded an error, no later phase (a later pass, code generation, the
\* write of the output file) is executed.
C2_AbortAfterError ==
    \A k \in 1..Len(order) : \A m \in (k + 1)..Len(order) :
        RecordedError(k) => ~LaterPhase(order[k], order[m])

\* C3: generate_code runs only if the analysis passes over all queued files
\* recorded no error; with an analysis error no IL is emitted.
C3_CodegenOnlyWithoutErrors ==
    (\E k \in 1..Len(order) : order[k].ph = "codegen") => AnalysisErrors = {}

\* C4: for every AST and pass, the semantic-generation traversal issues the
\* same sequence of enter() and leave() calls, with the same owner nodes, as
\* the semantic-analysis traversal and the code-generation traversal.
C4_SameScopeSequence ==
    \A i \in DOMAIN tr["gen"] :
        tr["gen"][i].st # "none" =>
            /\ ScopeEvents(tr["gen"][i].ev) = ScopeEvents(Rerun("ana", i, tr["gen"][i]).ev)
            /\ ScopeEvents(tr["gen"][i].ev) = ScopeEvents(Rerun("cg", i, tr["gen"][i]).ev)

\* The kinds the specification says introduce a scope.
ScopeKinds == {"AstIf", "AstFn", "AstLoop", "AstImpl", "AstAffix", "AstExtern", "AstBlock"}

\* In the events ev, node p is entered once, before every node below it is
\* visited, and left once, after every node below it was visited.
EnteredAndLeftAround(ev, p) ==
    /\ CountAt(ev, "enter", p) = 1
    /\ CountAt(ev, "leave", p) = 1
    /\ \A k, e, l \in 1..Len(ev) :
           /\ ev[k].op = "visit" /\ Below(p, ev[k].node)
           /\ ev[e].op = "enter" /\ ev[e].node = p
           /\ ev[l].op = "leave" /\ ev[l].node = p
           => e < k /\ k < l

\* C5: in each traversal, a visited node of kind If, Fn, Loop, Impl, Affix,
\* Extern or Block causes exactly one enter() before its children are visited
\* and exactly one leave() after the last one; other nodes cause none.
C5_ScopePerNode ==
    \A x \in Recorded :
        LET t == TraceOf(x)
            root == RootOf(x[2])
        IN
        \A k \in 1..Len(t.ev) :
            t.ev[k].op = "visit" =>
                IF NodeAt(root, t.ev[k].node).kind \in ScopeKinds
                THEN /\ CountAt(t.ev, "leave", t.ev[k].node) <= 1
                     /\ t.st = "ok" => EnteredAndLeftAround(t.ev, t.ev[k].node)
                ELSE /\ CountAt(t.ev, "enter", t.ev[k].node) = 0
                     /\ CountAt(t.ev, "leave", t.ev[k].node) = 0

IsPassPhase(e) == e.ph \in {"gen", "ana"}

\* The k-th traversal the pass loop of n files starts: pass by pass, file by
\* file in each pass, generation before analysis for each file.
ExpectedPhase(k, n) ==
    LET q == (k - 1) \div 2 IN
    Phase(IF k % 2 = 1 THEN "gen" ELSE "ana", (q % n) + 1, q \div n)

\* C6: the passes run in increasing order from pass 0; within a pass the
\* files are processed in the order queue_file was called, none in pass p+1
\* before all were processed in pass p; for each file in a pass, semantic
\* generation runs before semantic analysis.
C6_PassAndFileOrder ==
    /\ \A i \in 1..Len(queued_files) : queued_files[i] = input[i]
    /\ \A i \in 1..Len(asts) : asts[i].root = RootOf(i)
    /\ \A k \in 1..Len(SelectSeq(order, IsPassPhase)) :
           SelectSeq(order, IsPassPhase)[k] = ExpectedPhase(k, Len(queued_files))

\* Two files are queued and the second has been analysed in pass 1.
C6_Witness ==
    /\ Len(queued_files) = 2
    /\ \E k \in 1..Len(order) : order[k] = Phase("ana", 2, 1)

Times(e) == Cardinality({ k \in 1..Len(order) : order[k] = e })

\* The largest pass number a registered handler declares.
DeclaredMaxPass == find_total_passes(Registered(declared), Registered(declared))

\* C7 as stated: the driver runs max_pass+1 passes, max_pass the largest
\* declared pass number, and in each of them each of the three families
\* traverses each queued AST exactly once.
C7_MaxPassPlusOne ==
    pc = "done" =>
        \A i \in 1..Len(queued_files) : \A ph \in {"gen", "ana", "codegen"} :
            /\ \A p \in 0..DeclaredMaxPass : Times(Phase(ph, i, p)) = 1
            /\ \A k \in 1..Len(order) :
                   order[k].ph = ph /\ order[k].file = i => order[k].pass <= DeclaredMaxPass

\* C7, amended: when compile_write_binary returns it has run exactly 10
\* passes, 0..9, whatever the handlers declare; in each pass semantic
\* generation and semantic analysis each traversed each queued AST exactly
\* once, and code generation traversed each queued AST exactly once, after
\* the last pass.
C7_TenPasses ==
    pc = "done" =>
        /\ \A i \in 1..Len(queued_files) :
              /\ \A p \in 0..9 : Times(Phase("gen", i, p)) = 1 /\ Times(Phase("ana", i, p)) = 1
              /\ Times(Phase("codegen", i, 0)) = 1
        /\ Len(SelectSeq(order, IsPassPhase)) = 2 * 10 * Len(queued_files)
        /\ \A k, m \in 1..Len(order) :
              IsPassPhase(order[k]) /\ order[m].ph = "codegen" => k < m
        /\ Cardinality({ k \in 1..Len(order) : order[k].ph = "codegen" }) = Len(queued_files)

\* A run of two files has returned, with handlers that declare pass 1 at most.
C7_Witness == pc = "done" /\ Len(queued_files) = 2 /\ DeclaredMaxPass = 1

\* The handler invocations of the recorded semantic traversals: the trace
\* and the event.
SemanticCalls ==
    { y \in UNION { {TraceOf(x)} \X { TraceOf(x).ev[k] : k \in 1..Len(TraceOf(x).ev) } :
                      x \in { r \in Recorded : r[1] \in {"gen", "ana"} } } :
        IsHandlerEv(y[2]) }

\* C8 as stated: in pass p no handler whose declared pass number is greater
\* than p is invoked.
C8_LateHandlersSkipped == \A y \in SemanticCalls : y[2].decl <= y[1].pass

\* C8, amended: in pass p of semantic generation or semantic analysis the
\* driver sets the pass field of the handler it invokes to p before the call,
\* so every invoked handler runs with pass = p, whatever pass it declared.
C8_PassFieldIsCurrentPass == \A y \in SemanticCalls : y[2].hp = y[1].pass

\* A handler that declared a later pass was invoked, its pass field set to
\* the current pass.
C8_Witness == \E y \in SemanticCalls : y[2].decl > y[1].pass /\ y[2].hp = y[1].pass

\* C9: code generation invokes no handler and emits no IL for a node whose
\* emit flag is false; emit is true for every newly constructed node.
C9_NoEmitSkipped ==
    /\ EmitDefault
    /\ pc \in {"parse", "scope"} => \A i \in 1..Len(asts) : asts[i].emitOff = {}
    /\ \A i \in DOMAIN tr["cg"] : \A k \in 1..Len(tr["cg"][i].ev) :
           tr["cg"][i].ev[k].op \in {"codegen", "return"} => tr["cg"][i].ev[k].emit

\* C10: two compilations of the same queued files, neither with a
\* diagnostic, write the same IL, on a fresh DuskAssembly or on the same one.
C10_SameILTwice ==
    /\ Len(written) = 2
    /\ written[1].files = written[2].files
    /\ written[1].diagnostics = 0 /\ written[2].diagnostics = 0
    => written[1].stream = written[2].stream

\* The phases that traverse the tree of the file at the cursor.
TraversalSteps == {"gen", "ana", "codegen"}

\* C11: each AST root is owned by exactly one Ast value: no tree is deleted
\* more than once, and no tree is traversed by a semantic pass or by code
\* generation after it was deleted.
C11_ExclusiveOwnership ==
    /\ \A i \in 1..Len(asts) : asts[i].deletes <= 1
    /\ pc \in TraversalSteps /\ asts[idx].root # NullNode => asts[idx].deletes = 0

\* s is a prefix of t.
IsPrefix(s, t) == Len(s) <= Len(t) /\ SubSeq(t, 1, Len(s)) = s

\* The output files written by the runs so far: one per finished run.
WrittenOncePerRun == Len(written) = (IF pc = "done" THEN run.n ELSE run.n - 1)

\* The write is the last phase of a run: every queued file's code generation
\* came before it, and what is written is the whole IL stream.
WriteAfterAllCodegen ==
    \A k \in 1..Len(order) :
        order[k].ph = "write" =>
            /\ k = Len(order)
            /\ pc = "done"
            /\ written[Len(written)].stream = il
            /\ \A i \in 1..Len(queued_files) :
                   \E m \in 1..(k - 1) : order[m] = Phase("codegen", i, 0)

DepthBefore(t, k) ==
    t.d0 + CountOp(SubSeq(t.ev, 1, k - 1), "enter") - CountOp(SubSeq(t.ev, 1, k - 1), "leave")

\* C13: from the first pass to the write, scopes holds one ScopeContext, the
\* one this call pushed, and every traversal of every file and pass works on
\* it; its global scope is never popped: a leave() that finds only the global
\* scope fails its assertion, the last thing the process does.
C13_OneScopeContext ==
    /\ pc \in TraversalSteps \cup {"write"} => Len(scopes) = 1
    /\ pc \in {"main", "parse", "scope", "done"} => Len(scopes) = 0
    /\ \A x \in Recorded :
           LET t == TraceOf(x) IN
           \A k \in 1..Len(t.ev) :
               t.ev[k].op = "leave" =>
                   \/ DepthBefore(t, k) > 0
                   \/ DepthBefore(t, k) = 0 /\ t.st = "assert" /\ k = Len(t.ev)

\* The second run on the same DuskAssembly is at code generation of its
\* second file, after traversals that entered and left scopes.
C13_Witness ==
    /\ run = [n |-> 2, how |-> "same"]
    /\ pc = "codegen" /\ idx = 2
    /\ \E x \in Recorded : CountOp(TraceOf(x).ev, "enter") > 0

\* The last statement of a block is a Return.
LastIsReturn(body) == Len(body.kids) > 0 /\ body.kids[Len(body.kids)].kind = "AstReturn"

\* An Fn for which C14 expects an implicit return: it has a body, no
\* return_type, and its body does not end in a Return.
NeedsReturn(fn) == fn.kids[1] # NullNode /\ ~fn.ret /\ ~LastIsReturn(fn.kids[1])

\* The Fn nodes a code-generation traversal visited: file index, path.
VisitedFns ==
    UNION { { <<i, tr["cg"][i].ev[k].node>> :
                k \in { j \in 1..Len(tr["cg"][i].ev) :
                          /\ tr["cg"][i].ev[j].op = "visit"
                          /\ NodeAt(RootOf(i), tr["cg"][i].ev[j].node).kind = "AstFn" } } :
            i \in DOMAIN tr["cg"] }

ParserRuns(i) == Times(Phase("parse", i, 0))

\* C15: parse_file does not run the parser when lexing reported errors;
\* otherwise it runs the parser once and, exactly when that run recorded no
\* error, a second time; the Ast it returns has the second run's root, and no
\* root when lexing or the first parse recorded an error.
C15_ParseTwice ==
    /\ \A i \in 1..Len(queued_files) :
           Times(Phase("lex", i, 0)) = 1 =>
               ParserRuns(i) = (IF queued_files[i].lexErrors > 0 THEN 0
                                ELSE IF queued_files[i].parseErrors > 0 THEN 1 ELSE 2)
    /\ \A i \in 1..Len(asts) :
           IF queued_files[i].lexErrors > 0 \/ queued_files[i].parseErrors > 0
           THEN asts[i].root = NullNode /\ asts[i].parse = 0
           ELSE asts[i].root = queued_files[i].root /\ asts[i].parse = 2

\* A file parsed twice and a file whose first parse recorded an error.
C15_Witness ==
    \E i, j \in 1..Len(asts) :
        /\ asts[i].parse = 2 /\ ParserRuns(i) = 2
        /\ queued_files[j].parseErrors > 0 /\ ParserRuns(j) = 1

\* The nodes of a tree the driver's recursion reaches (every child that is
\* not null), as paths, each node before the nodes below it and the children
\* of a node in index order.
RECURSIVE Preorder(_, _), PreorderEach(_, _, _)
Preorder(node, path) ==
    IF node = NullNode THEN <<>>
    ELSE <<path>> \o PreorderEach(node.kids, path, 1)

PreorderEach(kids, path, i) ==
    IF i > Len(kids) THEN <<>>
    ELSE Preorder(kids[i], Append(path, i)) \o PreorderEach(kids, path, i + 1)

IsVisitEv(e) == e.op = "visit"

\* The nodes a traversal visited, in the order of the visits.
Visits(t) ==
    LET vs == SelectSeq(t.ev, IsVisitEv) IN [k \in 1..Len(vs) |-> vs[k].node]

\* C16: in each traversal a node's own handler is invoked before the
\* handler of any node below it, and the statements of a Block are visited
\* in index order, each at most once, and each exactly once in a traversal
\* that returns: the handler is invoked as the node is visited, before the
\* driver recurses, and the visits are the nodes in pre-order, left to right.
C16_PreOrderLeftToRight ==
    \A x \in Recorded :
        LET t == TraceOf(x) IN
        /\ \A k \in 1..Len(t.ev) :
               t.ev[k].op = "visit" =>
                   k < Len(t.ev) /\ IsHandlerEv(t.ev[k + 1]) /\ t.ev[k + 1].node = t.ev[k].node
        /\ \A m \in 1..Len(t.ev) :
               IsHandlerEv(t.ev[m]) =>
                   m > 1 /\ t.ev[m - 1].op = "visit" /\ t.ev[m - 1].node = t.ev[m].node
        /\ LET visits == Visits(t)
               nodes == Preorder(RootOf(x[2]), <<>>)
           IN
           /\ IsPrefix(visits, nodes)
           /\ t.st = "ok" => visits = nodes

\* A traversal of the file with every construct has returned.
C16_Witness ==
    \E x \in Recorded :
        /\ RootOf(x[2]) = Plain
        /\ TraceOf(x).st = "ok"
        /\ Len(Visits(TraceOf(x))) > Len(Plain.kids) + 1

\* C17: in no traversal does the driver call leave() while only the global
\* scope is on the scope stack, whatever the nesting of the Loop nodes.
C17_NoLeaveOnGlobalScope ==
    \A x \in Recorded :
        \A k \in 1..Len(TraceOf(x).ev) :
            TraceOf(x).ev[k].op = "leave" => DepthBefore(TraceOf(x), k) > 0

\* C18: semantic_generation_node, semantic_analyse_node and
\* generate_code_node are never called with a null node.
C18_NoNullNode == \A x \in Recorded : CountOp(TraceOf(x).ev, "null") = 0

\* The handler list of a family.
HandlersOf(fam) ==
    CASE fam = "gen" -> gen
      [] fam = "ana" -> ana
      [] fam = "cg" -> cg

\* C19: for each node visit in each family at most one handler is invoked
\* (a handler call comes right after the visit it belongs to, never after
\* another handler call), the first registered handler whose type_handler
\* equals the node's kind, also when the lists hold several handlers of a
\* kind because a second DuskAssembly was constructed.
C19_FirstMatchingHandler ==
    \A x \in Recorded :
        LET t == TraceOf(x)
            hs == HandlersOf(x[1])
        IN
        \A k \in 1..Len(t.ev) :
            IsHandlerEv(t.ev[k]) =>
                LET kind == NodeAt(RootOf(x[2]), t.ev[k].node).kind IN
                /\ t.ev[k].h \in 1..Len(hs)
                /\ hs[t.ev[k].h].type_handler = kind
                /\ \A j \in 1..(t.ev[k].h - 1) : hs[j].type_handler # kind
                /\ k > 1 /\ t.ev[k - 1].op = "visit" /\ t.ev[k - 1].node = t.ev[k].node

\* A second DuskAssembly was constructed, each list holds two handlers of
\* every kind, and each family has invoked a handler.
C19_Witness ==
    /\ run = [n |-> 2, how |-> "fresh"]
    /\ \A fam \in Families :
           /\ Len(HandlersOf(fam)) = 2 * Len(HandlerKinds)
           /\ \E i \in DOMAIN tr[fam] : \E k \in 1..Len(tr[fam][i].ev) : IsHandlerEv(tr[fam][i].ev[k])

\* C20: compile_write_binary terminates, and by reaching the step that
\* writes the output file: the process stops nowhere before that step, not
\* in parse_file, not in the pass loop of 10 iterations, not in a traversal.
C20_ReachesWrite == pc = "dead" => st = "nofile"

\* C21: set_colour never reads the token list at an index outside
\* 0..size-1: for a Symbol token at position j it reads tokens[j+1] and
\* tokens[j-1] only at positions that exist, j = 0 and j = size-1 included.
C21_ReadsInRange == \A k \in reads : InVector(tokens, k)

====
